---- MODULE Spec2Model ----
(***************************************************************************)
(* The grading and parsing core of mateinfoub-with-llm.                    *)
(*                                                                         *)
(* The answer equivalence grader (src/src/compare_answers.py):             *)
(* compare_answers, the JSON store of known matching / non-matching answer *)
(* pairs, and the batch driver compute_matchings_for_answers, run by one   *)
(* process or by two in parallel.                                          *)
(*                                                                         *)
(* The reply parser (src/src/internal_types.py): LLMAnswer.from_reply and  *)
(* LLMAnswer.try_extract_python_code, with the executor run_script         *)
(* (src/src/script_runner.py) they call.                                   *)
(*                                                                         *)
(* Answers are Python strings; they are modelled as sequences of           *)
(* one-character strings so that ==, str.strip() and float() are computed  *)
(* character by character.  A parsed float is an integer number of         *)
(* 1/10000 units (decimal fixed point); the numeric answers of the model   *)
(* are chosen where that arithmetic and IEEE doubles agree.                *)
(***************************************************************************)
EXTENDS Integers, Sequences, FiniteSets, TLC

(***************************************************************************)
(* Bounds of the model.                                                    *)
(***************************************************************************)
\* longest collection of (good answer, provided answer) pairs of a session
MaxAnswers == 2
\* most pairs in the store a campaign starts from
MaxInitStore == 1
\* most calls of try_extract_python_code in a row on one record
MaxSalvages == 2
\* problems of the contest of a solving round
MaxProblems == 1

(***************************************************************************)
(* Strings.                                                                *)
(***************************************************************************)
FailedToGetAnswer ==
    << "F","a","i","l","e","d"," ","t","o"," ","g","e","t"," ",
       "a","n","s","w","e","r","." >>
Timeout == << "T","i","m","e","o","u","t" >>
EmptyStr == << >>
BlankStr == << " " >>
S314 == << "3",".","1","4" >>
S31401 == << "3",".","1","4","0","1" >>
S320 == << "3",".","2","0" >>
S0 == << "0" >>
S001 == << "0",".","0","1" >>
SPad0 == << " ","0" >>
SX == << "x" >>
SPi == << "p","i" >>

\* the answers the model draws from
Strings ==
    { FailedToGetAnswer, Timeout, EmptyStr, BlankStr, S314, S31401, S320,
      S0, S001, SPad0, SX, SPi }

\* the pairs (good answer, provided answer) compare_answers is called on
\* directly: every answer against itself, against "Timeout", "" and " ",
\* and pairs that reach each later step
DirectPairs ==
    { << x, x >> : x \in Strings }
    \cup (Strings \X { Timeout, EmptyStr, BlankStr })
    \cup { << S314, FailedToGetAnswer >>, << S314, S31401 >>,
           << S314, S320 >>, << S0, S001 >>, << S001, S0 >>, << S0, SPad0 >>,
           << S314, SX >>, << SPi, S314 >>, << SX, SPi >> }

Whitespace == { " ", "\t", "\n", "\r" }

\* the first index from i on, and the last index up to i, of a character
\* of s that is not whitespace
RECURSIVE FirstNonBlank(_, _)
FirstNonBlank(s, i) ==
    IF i > Len(s) THEN i
    ELSE IF s[i] \in Whitespace THEN FirstNonBlank(s, i + 1)
    ELSE i

RECURSIVE LastNonBlank(_, _)
LastNonBlank(s, i) ==
    IF i < 1 THEN i
    ELSE IF s[i] \in Whitespace THEN LastNonBlank(s, i - 1)
    ELSE i

\* str.strip()
Strip(s) == SubSeq(s, FirstNonBlank(s, 1), LastNonBlank(s, Len(s)))

DigitVal ==
    [ c \in {"0","1","2","3","4","5","6","7","8","9"} |->
        CASE c = "0" -> 0 [] c = "1" -> 1 [] c = "2" -> 2 [] c = "3" -> 3
          [] c = "4" -> 4 [] c = "5" -> 5 [] c = "6" -> 6 [] c = "7" -> 7
          [] c = "8" -> 8 [] c = "9" -> 9 ]

IsDigits(s) == \A i \in 1..Len(s) : s[i] \in DOMAIN DigitVal

\* the number the first n digits of s write
RECURSIVE DigitsValueUpTo(_, _)
DigitsValueUpTo(s, n) ==
    IF n = 0 THEN 0
    ELSE 10 * DigitsValueUpTo(s, n - 1) + DigitVal[s[n]]

DigitsValue(s) == DigitsValueUpTo(s, Len(s))

\* A parsed float keeps as many decimals as ZeroPad has digits; Unit is 1.0
ZeroPad == << "0","0","0","0" >>
Decimals == Len(ZeroPad)

RECURSIVE Pow10(_)
Pow10(n) == IF n = 0 THEN 1 ELSE 10 * Pow10(n - 1)

Unit == Pow10(Decimals)

\* the fraction digits as a number of 1/Unit: padded (or cut) to Decimals
FractionValue(s) == DigitsValue(SubSeq(s \o ZeroPad, 1, Decimals))

NoFloat == [ ok |-> FALSE, val |-> 0 ]

\* float(s) for a string: optional blanks, optional sign, digits with an
\* optional decimal point; anything else raises ValueError (ok = FALSE)
ParseFloat(s) ==
    LET t == Strip(s)
        signed == t # << >> /\ Head(t) \in {"+", "-"}
        neg == signed /\ Head(t) = "-"
        body == IF signed THEN Tail(t) ELSE t
        dots == { i \in 1..Len(body) : body[i] = "." }
    IN  IF Cardinality(dots) > 1 THEN NoFloat
        ELSE LET dot == IF dots = {} THEN Len(body) + 1
                        ELSE CHOOSE i \in dots : TRUE
                 whole == SubSeq(body, 1, dot - 1)
                 frac == SubSeq(body, dot + 1, Len(body))
             IN  IF ~ IsDigits(whole) \/ ~ IsDigits(frac) THEN NoFloat
                 ELSE IF Len(whole) + Len(frac) = 0 THEN NoFloat
                 ELSE LET mag == DigitsValue(whole) * Unit + FractionValue(frac)
                      IN  [ ok |-> TRUE, val |-> IF neg THEN 0 - mag ELSE mag ]

\* float() of each answer of the model, computed once
FloatOf == [ s \in Strings |-> ParseFloat(s) ]

Abs(x) == IF x < 0 THEN 0 - x ELSE x


(***************************************************************************)
(* compare_answers.                                                        *)
(***************************************************************************)
\* what input("> ") can return, after .strip().lower()
Replies == { "y", "n", "maybe" }

\* x in lst, for a Python list
InList(x, lst) == \E i \in 1..Len(lst) : lst[i] = x

\* IsFailure without the test of a blank answer
IsFailure_no_blank(provided) ==
    \/ provided = FailedToGetAnswer
    \/ provided = Timeout

\* "Failed to get answer.", "Timeout" or a blank provided answer
IsFailure(provided) ==
    \/ provided = FailedToGetAnswer
    \/ provided = Timeout
    \/ Strip(provided) = EmptyStr

\* 0.01 in units of 1/Unit
Tolerance == Unit \div 100

\* NumericVerdict with <= for <
NumericVerdict_le(good, provided) == Abs(good - provided) <= Tolerance

\* abs(good_answer - provided_answer) < 0.01
NumericVerdict(good, provided) == Abs(good - provided) < Tolerance

Outcome(result, asked, step) ==
    [ result |-> result, asked |-> asked, step |-> step ]

\* OracleStep that answers False where it may not ask
OracleStep_guess(ask_user, reply) ==
    IF ~ ask_user THEN Outcome("false", FALSE, "oracle")
    ELSE IF reply = "y" THEN Outcome("true", TRUE, "oracle")
    ELSE IF reply = "n" THEN Outcome("false", TRUE, "oracle")
    ELSE Outcome("raise", TRUE, "oracle")

\* the end of compare_answers: raise unless ask_user, else prompt
OracleStep(ask_user, reply) ==
    IF ~ ask_user THEN Outcome("raise", FALSE, "oracle")
    ELSE IF reply = "y" THEN Outcome("true", TRUE, "oracle")
    ELSE IF reply = "n" THEN Outcome("false", TRUE, "oracle")
    ELSE Outcome("raise", TRUE, "oracle")

\* compare_answers with the store looked up after the automatic steps
compare_answers_memo_last(db, good, provided, ask_user, reply) ==
    LET pair == << good, provided >>
        g == FloatOf[good]
        p == FloatOf[provided]
    IN  IF good = provided THEN Outcome("true", FALSE, "equal")
        ELSE IF IsFailure(provided) THEN Outcome("false", FALSE, "failure")
        ELSE IF g.ok /\ p.ok
            THEN Outcome(IF NumericVerdict(g.val, p.val) THEN "true"
                         ELSE "false", FALSE, "numeric")
        ELSE IF InList(pair, db.matching) THEN Outcome("true", FALSE, "memo")
        ELSE IF InList(pair, db.non_matching)
            THEN Outcome("false", FALSE, "memo")
        ELSE OracleStep(ask_user, reply)

\* compare_answers with the failure sentinels tested before equality
compare_answers_failure_first(db, good, provided, ask_user, reply) ==
    LET pair == << good, provided >>
        g == FloatOf[good]
        p == FloatOf[provided]
    IN  IF InList(pair, db.matching) THEN Outcome("true", FALSE, "memo")
        ELSE IF InList(pair, db.non_matching)
            THEN Outcome("false", FALSE, "memo")
        ELSE IF IsFailure(provided) THEN Outcome("false", FALSE, "failure")
        ELSE IF good = provided THEN Outcome("true", FALSE, "equal")
        ELSE IF g.ok /\ p.ok
            THEN Outcome(IF NumericVerdict(g.val, p.val) THEN "true"
                         ELSE "false", FALSE, "numeric")
        ELSE OracleStep(ask_user, reply)

\* compare_answers on the store db it has loaded; reply is what the human
\* types if prompted.  result: "true" / "false" returned, or "raise".
compare_answers(db, good, provided, ask_user, reply) ==
    LET pair == << good, provided >>
        g == FloatOf[good]
        p == FloatOf[provided]
    IN  IF InList(pair, db.matching) THEN Outcome("true", FALSE, "memo")
        ELSE IF InList(pair, db.non_matching)
            THEN Outcome("false", FALSE, "memo")
        ELSE IF good = provided THEN Outcome("true", FALSE, "equal")
        ELSE IF IsFailure(provided) THEN Outcome("false", FALSE, "failure")
        ELSE IF g.ok /\ p.ok
            THEN Outcome(IF NumericVerdict(g.val, p.val) THEN "true"
                         ELSE "false", FALSE, "numeric")
        ELSE OracleStep(ask_user, reply)

(***************************************************************************)
(* The store file answers_matching.json.                                   *)
(***************************************************************************)
StoreFile(state, m, n) ==
    [ state |-> state, matching |-> m, non_matching |-> n ]

AbsentFile == StoreFile("absent", << >>, << >>)
\* opened for writing and not written: no JSON document in it
TruncatedFile == StoreFile("truncated", << >>, << >>)

\* the file as load_answers_db leaves it: created empty when absent
LoadedFile(f) ==
    IF f.state = "absent" THEN StoreFile("ok", << >>, << >>) ELSE f

\* json.loads succeeds
Loadable(f) == f.state # "truncated"

\* load_answers_db that returns a new, empty store
load_answers_db_empty(f) ==
    [ matching |-> << >>, non_matching |-> << >> ]

\* load_answers_db's return value
load_answers_db(f) ==
    [ matching |-> LoadedFile(f).matching,
      non_matching |-> LoadedFile(f).non_matching ]

\* save_answers_db with the two lists under each other's key
save_answers_db_swapped(m, n) == StoreFile("ok", n, m)

\* the file after save_answers_db(matching, non_matching)
save_answers_db(m, n) == StoreFile("ok", m, n)

\* filter_answers that looks at the matching list alone
filter_answers_matching_only(as, m, n) ==
    SelectSeq(as, LAMBDA i : ~ InList(i, m))

\* filter_answers of compute_matchings_for_answers
filter_answers(as, m, n) ==
    SelectSeq(as, LAMBDA i : ~ InList(i, m) /\ ~ InList(i, n))

\* RecordVerdict whose second branch is not an else
RecordVerdict_no_else(m, n, pair, verdict) ==
    [ matching |-> IF verdict /\ ~ InList(pair, m) THEN Append(m, pair)
                   ELSE m,
      non_matching |-> IF ~ InList(pair, n) THEN Append(n, pair) ELSE n ]

\* the two lists after the verdict on pair is recorded
RecordVerdict(m, n, pair, verdict) ==
    IF verdict
    THEN [ matching |-> IF ~ InList(pair, m) THEN Append(m, pair) ELSE m,
           non_matching |-> n ]
    ELSE [ matching |-> m,
           non_matching |-> IF ~ InList(pair, n) THEN Append(n, pair) ELSE n ]

(***************************************************************************)
(* Reply texts.  A reply is a sequence of pieces of text: a marker or a    *)
(* fence of three backquotes is one piece, so that "in", split, startswith *)
(* and endswith are computed by matching subsequences.                     *)
(***************************************************************************)
ReasoningStart == << "<REASONING>" >>
ReasoningEnd == << "</REASONING>" >>
PythonCodeStart == << "<PYTHON CODE>" >>
PythonCodeEnd == << "</PYTHON CODE>" >>
AnswerStart == << "<ANSWER>" >>
AnswerEnd == << "</ANSWER>" >>
\* three backquotes
Fence == << "FENCE" >>
\* three backquotes and the word python
FencePython == << "FENCE", "python" >>
FailedToGetReasoning == << "Failed to get reasoning." >>

\* sep in s at position i
MatchAt(s, sep, i) ==
    /\ i + Len(sep) - 1 <= Len(s)
    /\ SubSeq(s, i, i + Len(sep) - 1) = sep

\* the first position of sep in s, 0 when there is none
Find(s, sep) ==
    LET hits == { i \in 1..Len(s) : MatchAt(s, sep, i) }
    IN  IF hits = { } THEN 0
        ELSE CHOOSE i \in hits : \A j \in hits : i <= j

\* sep in s
Contains(s, sep) == Find(s, sep) > 0

\* s.split(sep)
RECURSIVE Split(_, _)
Split(s, sep) ==
    LET i == Find(s, sep)
    IN  IF i = 0 THEN << s >>
        ELSE << SubSeq(s, 1, i - 1) >>
                 \o Split(SubSeq(s, i + Len(sep), Len(s)), sep)

StartsWith(s, prefix) == MatchAt(s, prefix, 1)

EndsWith(s, suffix) ==
    Len(suffix) <= Len(s) /\ MatchAt(s, suffix, Len(s) - Len(suffix) + 1)

DropPrefix(s, prefix) ==
    IF StartsWith(s, prefix) THEN SubSeq(s, Len(prefix) + 1, Len(s)) ELSE s

DropSuffix(s, suffix) ==
    IF EndsWith(s, suffix) THEN SubSeq(s, 1, Len(s) - Len(suffix)) ELSE s

(***************************************************************************)
(* run_script (src/src/script_runner.py).                                  *)
(***************************************************************************)
\* What the container does with a script is not the program's choice: it
\* finishes within the timeout or not, its standard error holds the
\* "database static dir" signature or not, and it has written some
\* standard output by then.
PrintedOutputs == { << "4", "2" >>, << "4", "2", "\n" >>, EmptyStr }

Outcomes ==
    [ timed_out : BOOLEAN, misconfigured : BOOLEAN, stdout : PrintedOutputs ]

\* the script as written to script.py
ScriptFile(script) ==
    DropSuffix(DropPrefix(DropPrefix(Strip(script), FencePython), Fence),
               Fence)

Returned(script, o, value, killed) ==
    [ script |-> ScriptFile(script), outcome |-> o, raised |-> FALSE,
      value |-> value, killed |-> killed ]

Raised(script, o) ==
    [ script |-> ScriptFile(script), outcome |-> o, raised |-> TRUE,
      value |-> EmptyStr, killed |-> FALSE ]

\* run_script that looks at the standard error before the timeout
run_script_stderr_first(script, o) ==
    IF o.misconfigured THEN Raised(script, o)
    ELSE IF o.timed_out THEN Returned(script, o, Timeout, TRUE)
    ELSE Returned(script, o, Strip(o.stdout), FALSE)

run_script(script, o) ==
    IF o.timed_out THEN Returned(script, o, Timeout, TRUE)
    ELSE IF o.misconfigured THEN Raised(script, o)
    ELSE Returned(script, o, Strip(o.stdout), FALSE)

(***************************************************************************)
(* LLMAnswer.from_reply and LLMAnswer.try_extract_python_code              *)
(* (src/src/internal_types.py).                                            *)
(***************************************************************************)
\* python_code is None
NoCode == [ present |-> FALSE, text |-> EmptyStr ]

Code(text) == [ present |-> TRUE, text |-> text ]

LLMAnswer(reasoning, python_code, answer, whole_answer) ==
    [ reasoning |-> reasoning, python_code |-> python_code,
      answer |-> answer, whole_answer |-> whole_answer ]

\* the first try block of from_reply
ExtractReasoning(content) ==
    IF Contains(content, ReasoningStart) /\ Contains(content, ReasoningEnd)
    THEN Split(Split(content, ReasoningStart)[2], ReasoningEnd)[1]
    ELSE FailedToGetReasoning

\* the text between the code markers, without its fences
ExtractCode(content) ==
    LET between == Split(Split(content, PythonCodeStart)[2], PythonCodeEnd)[1]
    IN  Strip(DropPrefix(DropSuffix(DropPrefix(Strip(between), FencePython),
                                    Fence),
                         Fence))

\* the trimmed text between the answer markers
ExtractAnswerText(content) ==
    Strip(Split(Split(content, AnswerStart)[2], AnswerEnd)[1])

\* what the second try block leaves: python_code, answer and the calls of
\* run_script it made
Extracted(python_code, answer, runs) ==
    [ python_code |-> python_code, answer |-> answer, runs |-> runs ]

FailedExtraction(runs) == Extracted(NoCode, FailedToGetAnswer, runs)

\* the second try block without the assert on </ANSWER>
ExtractAnswer_no_assert(content, o) ==
    IF Contains(content, PythonCodeStart)
    THEN IF ~ Contains(content, PythonCodeEnd) THEN FailedExtraction(<< >>)
         ELSE LET run == run_script(ExtractCode(content), o)
              IN  IF run.raised THEN FailedExtraction(<< run >>)
                  ELSE Extracted(Code(ExtractCode(content)), Strip(run.value),
                                 << run >>)
    ELSE IF ~ Contains(content, AnswerStart) THEN FailedExtraction(<< >>)
    ELSE Extracted(NoCode, ExtractAnswerText(content), << >>)

\* the second try block that looks for the answer block first
ExtractAnswer_answer_first(content, o) ==
    IF Contains(content, AnswerStart) /\ Contains(content, AnswerEnd)
    THEN Extracted(NoCode, ExtractAnswerText(content), << >>)
    ELSE IF ~ Contains(content, PythonCodeStart)
              \/ ~ Contains(content, PythonCodeEnd)
    THEN FailedExtraction(<< >>)
    ELSE LET run == run_script(ExtractCode(content), o)
         IN  IF run.raised THEN FailedExtraction(<< run >>)
             ELSE Extracted(Code(ExtractCode(content)), Strip(run.value),
                            << run >>)

\* the second try block of from_reply: an AssertionError and the exception
\* of run_script end in the except clause
ExtractAnswer(content, o) ==
    IF Contains(content, PythonCodeStart)
    THEN IF ~ Contains(content, PythonCodeEnd) THEN FailedExtraction(<< >>)
         ELSE LET run == run_script(ExtractCode(content), o)
              IN  IF run.raised THEN FailedExtraction(<< run >>)
                  ELSE Extracted(Code(ExtractCode(content)), Strip(run.value),
                                 << run >>)
    ELSE IF ~ Contains(content, AnswerStart) \/ ~ Contains(content, AnswerEnd)
    THEN FailedExtraction(<< >>)
    ELSE Extracted(NoCode, ExtractAnswerText(content), << >>)

\* the block after the last tagged fence, up to the next fence
TaggedBlock(whole_answer) ==
    IF ~ Contains(whole_answer, FencePython) THEN NoCode
    ELSE LET parts == Split(whole_answer, FencePython)
             segm_with_code == parts[Len(parts)]
         IN  IF Contains(segm_with_code, Fence)
             THEN Code(Split(segm_with_code, Fence)[1])
             ELSE NoCode

\* the last but one piece between fences replaces the tagged block
\* when it holds a fence itself
LatestBlock(whole_answer) ==
    IF ~ Contains(whole_answer, Fence) THEN TaggedBlock(whole_answer)
    ELSE LET parts == Split(whole_answer, Fence)
             segm_with_code == parts[Len(parts) - 1]
         IN  IF Contains(segm_with_code, Fence)
             THEN Code(Split(segm_with_code, Fence)[1])
             ELSE TaggedBlock(whole_answer)

\* the record, whether the call raised, and the calls of run_script it made
Salvaged(rec, raised, runs) ==
    [ rec |-> rec, raised |-> raised, runs |-> runs ]

\* whether the record asks for the salvage pass
Malformed(rec) == rec.answer = FailedToGetAnswer /\ ~ rec.python_code.present

\* try_extract_python_code with the second chance for a timed out script
try_extract_python_code_retry(rec, o) ==
    LET python_code == LatestBlock(rec.whole_answer)
    IN  IF Malformed(rec) /\ python_code.present
        THEN LET run == run_script(python_code.text, o)
                 found == [ rec EXCEPT
                              !.python_code = Code(Strip(python_code.text)) ]
             IN  IF run.raised THEN Salvaged(found, TRUE, << run >>)
                 ELSE Salvaged([ found EXCEPT !.answer = Strip(run.value) ],
                               FALSE, << run >>)
        ELSE IF rec.answer = Timeout /\ rec.python_code.present
        THEN LET run == run_script(rec.python_code.text, o)
             IN  IF run.raised THEN Salvaged(rec, TRUE, << run >>)
                 ELSE Salvaged([ rec EXCEPT !.answer = Strip(run.value) ],
                               FALSE, << run >>)
        ELSE Salvaged(rec, FALSE, << >>)

\* try_extract_python_code: python_code is assigned before run_script is
\* called, and the exception of run_script is not caught
try_extract_python_code(rec, o) ==
    LET python_code == LatestBlock(rec.whole_answer)
    IN  IF Malformed(rec) /\ python_code.present
        THEN LET run == run_script(python_code.text, o)
                 found == [ rec EXCEPT
                              !.python_code = Code(Strip(python_code.text)) ]
             IN  IF run.raised THEN Salvaged(found, TRUE, << run >>)
                 ELSE Salvaged([ found EXCEPT !.answer = Strip(run.value) ],
                               FALSE, << run >>)
        ELSE Salvaged(rec, FALSE, << >>)

\* from_reply: the two try blocks, the record, the salvage pass
from_reply(content, o1, o2) ==
    LET got == ExtractAnswer(content, o1)
        llm_answer == LLMAnswer(ExtractReasoning(content), got.python_code,
                                got.answer, content)
        end == try_extract_python_code(llm_answer, o2)
    IN  Salvaged(end.rec, end.raised, got.runs \o end.runs)

(***************************************************************************)
(* State.                                                                  *)
(***************************************************************************)
VARIABLES
    file,          \* answers_matching.json
    pc,            \* where each grading session is
    matching,      \* the matching list a session holds in memory
    non_matching,  \* the non_matching list a session holds in memory
    answers,       \* the pairs a session still has to check
    collection,    \* what load_good_answers_and_provided_answers returned
    last,          \* the latest compare_answers call and how it ended
    content,       \* the reply text of the record at hand
    llm_answer,    \* the LLMAnswer the caller holds
    earlier,       \* that LLMAnswer before the latest call on it
    op,            \* the latest call of the parser
    salvages,      \* calls of try_extract_python_code in a row so far
    raised,        \* whether the latest call of the parser raised
    runs,          \* the calls of run_script the latest call made
    batch,         \* the solutions file of the round
    solutions,     \* the list of solutions the round holds in memory
    started,       \* the solutions file as the round found it
    cursor,        \* the record or the triple the round is at
    round,         \* where solve_tasks_asking_llms is
    asked          \* the replies ask_model has returned, for each triple

\* the grader's variables and the parser's
gvars ==
    << file, pc, matching, non_matching, answers, collection, last >>

pvars ==
    << content, llm_answer, earlier, op, salvages, raised, runs >>

svars == << batch, solutions, started, cursor, round, asked >>

vars == << gvars, pvars, svars >>

\* processes that can run compute_matchings_for_answers; one at a time runs
\* in the sequential specifications
Sessions == { 1, 2 }
Sequential == { 1 }

\* the pairs the graded solutions give rise to
GradedPairs ==
    { << S314, S314 >>, << S0, S001 >>, << S314, Timeout >>, << S314, SX >> }

RECURSIVE SeqsUpTo(_, _)
SeqsUpTo(S, n) ==
    IF n = 0 THEN { << >> }
    ELSE LET shorter == SeqsUpTo(S, n - 1)
         IN  shorter \cup { Append(q, x) : q \in shorter, x \in S }

Range(q) == { q[i] : i \in 1..Len(q) }

NoDuplicates(q) == Cardinality(Range(q)) = Len(q)

\* the collections of pairs a session can be given, duplicates allowed
Collections == SeqsUpTo(GradedPairs, MaxAnswers)

\* the stores a campaign can start from: no file, or a file whose two lists
\* share no pair
InitStores ==
    { AbsentFile } \cup
    { StoreFile("ok", mn[1], mn[2]) :
        mn \in { q \in SeqsUpTo(GradedPairs, MaxInitStore)
                       \X SeqsUpTo(GradedPairs, MaxInitStore) :
                   /\ Len(q[1]) + Len(q[2]) <= MaxInitStore
                   /\ NoDuplicates(q[1]) /\ NoDuplicates(q[2])
                   /\ Range(q[1]) \cap Range(q[2]) = {} } }

Call(caller, db, good, provided, ask_user, out, reply) ==
    [ caller |-> caller, db |-> db, good |-> good, provided |-> provided,
      ask_user |-> ask_user, result |-> out.result, asked |-> out.asked,
      step |-> out.step, reply |-> IF out.asked THEN reply ELSE "-" ]

NoCall ==
    Call("none", [ matching |-> << >>, non_matching |-> << >> ], << >>, << >>,
         FALSE, Outcome("none", FALSE, "none"), "-")

\* json.loads raised inside load_answers_db
LoadError(caller) ==
    Call(caller, [ matching |-> << >>, non_matching |-> << >> ], << >>, << >>,
         FALSE, Outcome("raise", FALSE, "load"), "-")

Running(s) == pc[s] \in { "loop", "prompt" }

\* no process is in the grader: every session has exited and the direct
\* caller has taken its result
NoneRunning == last = NoCall /\ \A s \in Sessions : pc[s] = "idle"

\* the caller holds no LLMAnswer
NoRecord == LLMAnswer(EmptyStr, NoCode, EmptyStr, EmptyStr)

(***************************************************************************)
(* solve_tasks_asking_llms (src/src/exp1_get_solutions.py), for the        *)
(* contests of one language.                                               *)
(***************************************************************************)
\* the contest of the round and the models asked
Edition == "2023"
Backends == << "gemini", "mistral" >>

\* the (edition, problem, backend) triples in the order of the three loops
Visits ==
    [ i \in 1..(MaxProblems * Len(Backends)) |->
        << Edition, (i - 1) \div Len(Backends),
           Backends[((i - 1) % Len(Backends)) + 1] >> ]

\* what ask_model returns when the backend failed, and the text the round
\* looks for
FailureMarker == << "Failed to get a response from" >>
BackendFailure == FailureMarker \o << " ", "Gemini." >>

\* an LLMAnswer with the triple it answers
Solution(triple, rec) ==
    [ edition |-> triple[1], problem_index |-> triple[2], llm |-> triple[3],
      rec |-> rec ]

TripleOf(s) == << s.edition, s.problem_index, s.llm >>

\* the test of the round for "we already have a solution"
AlreadySolved(sols, triple) ==
    \E i \in 1..Len(sols) :
        /\ TripleOf(sols[i]) = triple
        /\ ~ Contains(sols[i].rec.whole_answer, FailureMarker)

\* the old answer is not removed
WithoutOld_kept(sols, triple) == sols

\* the list without the old answer for the triple
WithoutOld(sols, triple) ==
    SelectSeq(sols, LAMBDA s : TripleOf(s) # triple)

NothingAsked == [ i \in DOMAIN Visits |-> << >> ]

\* no solving round goes on
SolverIdle ==
    /\ batch = << >>
    /\ solutions = << >>
    /\ started = << >>
    /\ cursor = 0
    /\ round = "idle"
    /\ asked = NothingAsked

ParserIdle ==
    /\ content = EmptyStr
    /\ llm_answer = NoRecord
    /\ earlier = NoRecord
    /\ op = "none"
    /\ salvages = 0
    /\ raised = FALSE
    /\ runs = << >>

Init ==
    /\ ParserIdle
    /\ SolverIdle
    /\ file \in InitStores
    /\ pc = [ s \in Sessions |-> "idle" ]
    /\ matching = [ s \in Sessions |-> << >> ]
    /\ non_matching = [ s \in Sessions |-> << >> ]
    /\ answers = [ s \in Sessions |-> << >> ]
    /\ collection = [ s \in Sessions |-> << >> ]
    /\ last = NoCall

\* the campaign starts with no store
InitFresh == Init /\ file = AbsentFile

(***************************************************************************)
(* A direct call compare_answers(good, provided, ask_user).                *)
(***************************************************************************)
Compare(good, provided, ask_user, reply) ==
    /\ NoneRunning
    /\ IF Loadable(file)
       THEN /\ file' = LoadedFile(file)
            /\ last' = Call("direct", load_answers_db(file), good, provided,
                            ask_user,
                            compare_answers(load_answers_db(file), good,
                                            provided, ask_user, reply),
                            reply)
       ELSE /\ file' = file
            /\ last' = LoadError("direct")
    /\ UNCHANGED << pc, matching, non_matching, answers, collection >>
    /\ UNCHANGED << pvars, svars >>

\* the direct caller takes the result (or the exception)
Return ==
    /\ last.caller = "direct"
    /\ last' = NoCall
    /\ UNCHANGED << file, pc, matching, non_matching, answers, collection >>
    /\ UNCHANGED << pvars, svars >>

(***************************************************************************)
(* compute_matchings_for_answers.                                          *)
(***************************************************************************)
\* from the start to the first test of the while loop
OpenSession(s, coll) ==
    /\ UNCHANGED << pvars, svars >>
    /\ last' = NoCall
    /\ collection' = [ collection EXCEPT ![s] = coll ]
    /\ IF Loadable(file)
       THEN LET db == load_answers_db(file)
                todo == filter_answers(coll, db.matching, db.non_matching)
            IN  /\ file' = LoadedFile(file)
                /\ matching' = [ matching EXCEPT ![s] = db.matching ]
                /\ non_matching' =
                       [ non_matching EXCEPT ![s] = db.non_matching ]
                /\ answers' = [ answers EXCEPT ![s] = todo ]
                /\ pc' = [ pc EXCEPT ![s] =
                             IF Len(todo) > 0 THEN "loop" ELSE "done" ]
       ELSE /\ pc' = [ pc EXCEPT ![s] = "failed" ]
            /\ matching' = [ matching EXCEPT ![s] = << >> ]
            /\ non_matching' = [ non_matching EXCEPT ![s] = << >> ]
            /\ answers' = [ answers EXCEPT ![s] = << >> ]
            /\ UNCHANGED file

\* one process at a time: the session starts when no other runs
StartSession(s, coll) == NoneRunning /\ OpenSession(s, coll)

\* an iteration that reads the file again and records the verdict in the
\* lists it finds there
Iteration_reload(s, verdict, upto) ==
    LET db == load_answers_db(file)
        rec == RecordVerdict(db.matching, db.non_matching, answers[s][1],
                             verdict)
        todo == filter_answers(answers[s], rec.matching, rec.non_matching)
    IN  /\ matching' = [ matching EXCEPT ![s] = rec.matching ]
        /\ non_matching' = [ non_matching EXCEPT ![s] = rec.non_matching ]
        /\ answers' = [ answers EXCEPT ![s] = todo ]
        /\ file' = CASE upto = "saved" ->
                          save_answers_db(rec.matching, rec.non_matching)
                     [] upto = "recorded" -> LoadedFile(file)
                     [] upto = "truncated" -> TruncatedFile
        /\ pc' = [ pc EXCEPT ![s] =
                     IF upto # "saved" THEN "interrupted"
                     ELSE IF Len(todo) > 0 THEN "loop" ELSE "done" ]

\* The rest of an iteration once compare_answers has returned verdict:
\* record it, filter, save.  upto = "saved" is the whole iteration;
\* "recorded" stops it before save_answers_db, "truncated" inside
\* save_answers_db, after open(.., "w") and before the write reaches the file.
Iteration(s, verdict, upto) ==
    LET rec == RecordVerdict(matching[s], non_matching[s], answers[s][1],
                             verdict)
        todo == filter_answers(answers[s], rec.matching, rec.non_matching)
    IN  /\ matching' = [ matching EXCEPT ![s] = rec.matching ]
        /\ non_matching' = [ non_matching EXCEPT ![s] = rec.non_matching ]
        /\ answers' = [ answers EXCEPT ![s] = todo ]
        /\ file' = CASE upto = "saved" ->
                          save_answers_db(rec.matching, rec.non_matching)
                     [] upto = "recorded" -> LoadedFile(file)
                     [] upto = "truncated" -> TruncatedFile
        /\ pc' = [ pc EXCEPT ![s] =
                     IF upto # "saved" THEN "interrupted"
                     ELSE IF Len(todo) > 0 THEN "loop" ELSE "done" ]

\* compare_answers(answers[0][0], answers[0][1], True) up to its return or
\* its prompt (the call is then pending in last), and the iteration after it
GradeUpto(s, upto) ==
    /\ pc[s] = "loop"
    /\ UNCHANGED collection
    /\ UNCHANGED << pvars, svars >>
    /\ IF ~ Loadable(file)
       THEN /\ upto = "saved"
            /\ last' = LoadError("driver")
            /\ pc' = [ pc EXCEPT ![s] = "failed" ]
            /\ UNCHANGED << file, matching, non_matching, answers >>
       ELSE LET db == load_answers_db(file)
                good == answers[s][1][1]
                provided == answers[s][1][2]
                out == compare_answers(db, good, provided, TRUE, "y")
            IN  IF out.asked
                THEN /\ upto = "saved"
                     /\ file' = LoadedFile(file)
                     /\ pc' = [ pc EXCEPT ![s] = "prompt" ]
                     /\ last' = Call("driver", db, good, provided, TRUE,
                                     Outcome("pending", TRUE, "oracle"), "-")
                     /\ UNCHANGED << matching, non_matching, answers >>
                ELSE /\ last' = Call("driver", db, good, provided, TRUE, out,
                                     "-")
                     /\ Iteration(s, out.result = "true", upto)

Grade(s) == GradeUpto(s, "saved")

\* the human answers the prompt; the iteration after it
AnswerUpto(s, reply, upto) ==
    /\ pc[s] = "prompt"
    /\ UNCHANGED collection
    /\ UNCHANGED << pvars, svars >>
    /\ LET out == OracleStep(TRUE, reply)
       IN  /\ last' = [ last EXCEPT !.result = out.result, !.reply = reply ]
           /\ IF out.result = "raise"
              THEN /\ upto = "saved"
                   /\ pc' = [ pc EXCEPT ![s] = "failed" ]
                   /\ UNCHANGED << file, matching, non_matching, answers >>
              ELSE Iteration(s, out.result = "true", upto)

Answer(s, reply) == AnswerUpto(s, reply, "saved")

\* the process of a session that ended (returned, raised or was
\* interrupted) exits; what it held in memory is gone
Exit(s) ==
    /\ pc[s] \in { "done", "failed", "interrupted" }
    /\ pc' = [ pc EXCEPT ![s] = "idle" ]
    /\ matching' = [ matching EXCEPT ![s] = << >> ]
    /\ non_matching' = [ non_matching EXCEPT ![s] = << >> ]
    /\ answers' = [ answers EXCEPT ![s] = << >> ]
    /\ collection' = [ collection EXCEPT ![s] = << >> ]
    /\ last' = NoCall
    /\ UNCHANGED file
    /\ UNCHANGED << pvars, svars >>

\* the session is interrupted while it waits at the prompt
InterruptAtPrompt(s) ==
    /\ pc[s] = "prompt"
    /\ pc' = [ pc EXCEPT ![s] = "interrupted" ]
    /\ UNCHANGED << file, matching, non_matching, answers, collection, last >>
    /\ UNCHANGED << pvars, svars >>

\* the session is interrupted between a verdict and the end of the save
InterruptInGrade(s, upto) ==
    /\ upto \in { "recorded", "truncated" }
    /\ GradeUpto(s, upto)

InterruptInAnswer(s, reply, upto) ==
    /\ upto \in { "recorded", "truncated" }
    /\ AnswerUpto(s, reply, upto)

(***************************************************************************)
(* The parser's callers: solve_tasks_asking_llms parses each reply with    *)
(* from_reply and, when it resumes, runs try_extract_python_code on every  *)
(* record of the saved batch.                                              *)
(***************************************************************************)
\* pieces of text inside a reply
CodeA == << "A" >>
CodeB == << "B" >>
Five == << "5" >>
Words == << "r" >>
Space == << " " >>

ReasoningBlock == ReasoningStart \o Words \o ReasoningEnd

\* the replies of the model
AnswerOnly ==
    ReasoningBlock \o AnswerStart \o Space \o Five \o Space \o AnswerEnd
CodeOnly == ReasoningBlock \o PythonCodeStart \o CodeA \o PythonCodeEnd
CodeFenced ==
    PythonCodeStart \o Space \o FencePython \o CodeA \o Fence \o Space
        \o PythonCodeEnd
CodeAndAnswer ==
    PythonCodeStart \o CodeA \o PythonCodeEnd \o AnswerStart \o Five
        \o AnswerEnd
CodeUnclosed == PythonCodeStart \o CodeA \o AnswerStart \o Five \o AnswerEnd
CodeUnclosedFenced == PythonCodeStart \o FencePython \o CodeA \o Fence
AnswerUnclosed == ReasoningBlock \o AnswerStart \o Five
NoBlocks == Words
TaggedFence == Words \o FencePython \o Space \o CodeA \o Space \o Fence
BareFence == Words \o Fence \o CodeA \o Fence
TwoTagged == FencePython \o CodeA \o Fence \o FencePython \o CodeB \o Fence
TaggedThenBare == FencePython \o CodeA \o Fence \o Fence \o CodeB \o Fence
TaggedUnclosed == Words \o FencePython \o CodeA
AnswerIsSentinel ==
    ReasoningStart \o FencePython \o CodeA \o Fence \o ReasoningEnd
        \o AnswerStart \o FailedToGetAnswer \o AnswerEnd

ReplyTexts ==
    { AnswerOnly, CodeOnly, CodeFenced, CodeAndAnswer, CodeUnclosed,
      CodeUnclosedFenced, AnswerUnclosed, NoBlocks, TaggedFence, BareFence,
      TwoTagged, TaggedThenBare, TaggedUnclosed, AnswerIsSentinel }

\* the records of a batch saved by a previous run, the runs before the
\* salvage pass existed included
SavedRecords ==
    { LLMAnswer(ExtractReasoning(c), ExtractAnswer(c, o).python_code,
                ExtractAnswer(c, o).answer, c) :
        c \in ReplyTexts, o \in Outcomes }

\* the caller holds a record
Held == op # "none" /\ ~ (op = "from_reply" /\ raised)

\* result = LLMAnswer.from_reply(answer, ...): the caller gets the record
\* or the exception
FromReply(c, o1, o2) ==
    /\ op = "none"
    /\ LET end == from_reply(c, o1, o2)
       IN  /\ llm_answer' = IF end.raised THEN NoRecord ELSE end.rec
           /\ raised' = end.raised
           /\ runs' = end.runs
    /\ content' = c
    /\ earlier' = NoRecord
    /\ op' = "from_reply"
    /\ salvages' = 0
    /\ UNCHANGED << gvars, svars >>

\* LLMAnswer.from_json(s) for a record s of the saved batch
FromJson(r) ==
    /\ op = "none"
    /\ llm_answer' = r
    /\ content' = r.whole_answer
    /\ earlier' = NoRecord
    /\ op' = "from_json"
    /\ salvages' = 0
    /\ raised' = FALSE
    /\ runs' = << >>
    /\ UNCHANGED << gvars, svars >>

\* s.try_extract_python_code() on the record the caller holds
TryExtract(o) ==
    /\ Held
    /\ salvages < MaxSalvages
    /\ LET end == try_extract_python_code(llm_answer, o)
       IN  /\ llm_answer' = end.rec
           /\ raised' = end.raised
           /\ runs' = end.runs
    /\ earlier' = llm_answer
    /\ op' = "try_extract_python_code"
    /\ salvages' = salvages + 1
    /\ UNCHANGED << content, gvars, svars >>

\* the caller is done with the record (or with the exception)
Forget ==
    /\ op # "none"
    /\ content' = EmptyStr
    /\ llm_answer' = NoRecord
    /\ earlier' = NoRecord
    /\ op' = "none"
    /\ salvages' = 0
    /\ raised' = FALSE
    /\ runs' = << >>
    /\ UNCHANGED << gvars, svars >>

(***************************************************************************)
(* Specifications.                                                         *)
(***************************************************************************)
Next ==
    \/ \E pair \in DirectPairs, ask_user \in BOOLEAN, reply \in Replies :
          Compare(pair[1], pair[2], ask_user, reply)
    \/ Return
    \/ \E s \in Sequential, coll \in Collections : StartSession(s, coll)
    \/ \E s \in Sequential : Grade(s)
    \/ \E s \in Sequential, reply \in Replies : Answer(s, reply)
    \/ \E s \in Sequential : Exit(s)

\* sequential grading from any store with disjoint lists
Spec == Init /\ [][Next]_vars

\* sequential grading from no store at all
SpecFresh == InitFresh /\ [][Next]_vars

Cuts == { "recorded", "truncated" }

NextCrash ==
    \/ Next
    \/ \E s \in Sequential : InterruptAtPrompt(s)
    \/ \E s \in Sequential, upto \in Cuts : InterruptInGrade(s, upto)
    \/ \E s \in Sequential, reply \in Replies, upto \in Cuts :
          InterruptInAnswer(s, reply, upto)

\* sequential grading in which a session can be interrupted
SpecCrash == Init /\ [][NextCrash]_vars

\* the human answers y or n
AnswerYN(s) == \E reply \in { "y", "n" } : Answer(s, reply)

NextYN ==
    \/ \E pair \in DirectPairs, ask_user \in BOOLEAN, reply \in Replies :
          Compare(pair[1], pair[2], ask_user, reply)
    \/ Return
    \/ \E s \in Sequential, coll \in Collections : StartSession(s, coll)
    \/ \E s \in Sequential : Grade(s)
    \/ \E s \in Sequential : AnswerYN(s)
    \/ \E s \in Sequential : Exit(s)

\* sequential grading with a human who always answers y or n: a running
\* session goes on, and its prompt is answered
SpecYN ==
    /\ Init
    /\ [][NextYN]_vars
    /\ \A s \in Sequential : WF_vars(Grade(s)) /\ WF_vars(AnswerYN(s))

\* two processes run compute_matchings_for_answers on the same file; nothing
\* in the code keeps the second from starting while the first runs
StartParallel(s, coll) == pc[s] = "idle" /\ OpenSession(s, coll)

\* the pairs the sessions run in parallel are given
ParallelPairs == { << S314, S314 >>, << S314, SX >> }

NextParallel ==
    \/ \E s \in Sessions, coll \in SeqsUpTo(ParallelPairs, MaxAnswers) :
          StartParallel(s, coll)
    \/ \E s \in Sessions : Grade(s)
    \/ \E s \in Sessions, reply \in Replies : Answer(s, reply)
    \/ \E s \in Sessions : Exit(s)

\* grading sessions in parallel, from no store at all; an iteration of a
\* session is one step
SpecParallel == InitFresh /\ [][NextParallel]_vars

\* no grading goes on
GraderIdle ==
    /\ file = AbsentFile
    /\ pc = [ s \in Sessions |-> "idle" ]
    /\ matching = [ s \in Sessions |-> << >> ]
    /\ non_matching = [ s \in Sessions |-> << >> ]
    /\ answers = [ s \in Sessions |-> << >> ]
    /\ collection = [ s \in Sessions |-> << >> ]
    /\ last = NoCall

InitParse == GraderIdle /\ ParserIdle /\ SolverIdle

NextParse ==
    \/ \E c \in ReplyTexts, o1 \in Outcomes, o2 \in Outcomes :
          FromReply(c, o1, o2)
    \/ \E r \in SavedRecords : FromJson(r)
    \/ \E o \in Outcomes : TryExtract(o)
    \/ Forget

\* parsing replies and salvaging records, one call at a time
SpecParse == InitParse /\ [][NextParse]_vars

(***************************************************************************)
(* A solving round.                                                        *)
(***************************************************************************)
\* the replies ask_model returns in a round
RoundReplies == { BackendFailure, AnswerOnly, TaggedFence }

\* what the containers of a round do: the script prints its answer in time,
\* with or without the error signature in the standard error
RoundOutcomes ==
    { o \in Outcomes : o.stdout = << "4", "2" >> /\ ~ o.timed_out }

\* the records a saved batch can hold for a triple: a backend failure, an
\* answer, and a reply that was saved before the salvage pass existed
SavedForTriple ==
    { LLMAnswer(ExtractReasoning(c), NoCode,
                IF c = AnswerOnly THEN ExtractAnswerText(c)
                ELSE FailedToGetAnswer, c) :
        c \in RoundReplies }

\* the saved batches over the first n triples, at most one record each
RECURSIVE BatchesUpTo(_)
BatchesUpTo(n) ==
    IF n = 0 THEN { << >> }
    ELSE { b \o x :
             b \in BatchesUpTo(n - 1),
             x \in { << >> } \cup
                   { << Solution(Visits[n], r) >> : r \in SavedForTriple } }

\* the round reads the saved batch (none: an empty list)
StartRound ==
    /\ round = "idle"
    /\ solutions' = batch
    /\ started' = batch
    /\ cursor' = 1
    /\ round' = IF Len(batch) > 0 THEN "salvage" ELSE "loop"
    /\ asked' = NothingAsked
    /\ UNCHANGED << batch, gvars, pvars >>

\* s.try_extract_python_code() for the next record of the list read
SalvageSaved(o) ==
    /\ round = "salvage"
    /\ LET end == try_extract_python_code(solutions[cursor].rec, o)
       IN  /\ solutions' = [ solutions EXCEPT ![cursor].rec = end.rec ]
           /\ IF end.raised
              THEN round' = "failed" /\ UNCHANGED cursor
              ELSE IF cursor < Len(solutions)
              THEN cursor' = cursor + 1 /\ UNCHANGED round
              ELSE cursor' = 1 /\ round' = "loop"
    /\ UNCHANGED << batch, started, asked, gvars, pvars >>

\* the body of the loops for the next triple: skip it, or drop its old
\* answer, ask the model, parse the reply, append the record and write
\* the file
VisitTriple(reply, o1, o2) ==
    /\ round = "loop"
    /\ cursor <= Len(Visits)
    /\ IF AlreadySolved(solutions, Visits[cursor])
       THEN /\ cursor' = cursor + 1
            /\ UNCHANGED << batch, solutions, round, asked >>
       ELSE LET end == from_reply(reply, o1, o2)
                kept == WithoutOld(solutions, Visits[cursor])
            IN  /\ asked' = [ asked EXCEPT ![cursor] = Append(@, reply) ]
                /\ IF end.raised
                   THEN /\ solutions' = kept
                        /\ round' = "failed"
                        /\ UNCHANGED << batch, cursor >>
                   ELSE /\ solutions' =
                               Append(kept, Solution(Visits[cursor], end.rec))
                        /\ batch' =
                               Append(kept, Solution(Visits[cursor], end.rec))
                        /\ cursor' = cursor + 1
                        /\ UNCHANGED round
    /\ UNCHANGED << started, gvars, pvars >>

\* the write after the loops
FinishRound ==
    /\ round = "loop"
    /\ cursor > Len(Visits)
    /\ batch' = solutions
    /\ round' = "done"
    /\ UNCHANGED << solutions, started, cursor, asked, gvars, pvars >>

InitSolve ==
    /\ GraderIdle
    /\ ParserIdle
    /\ batch \in BatchesUpTo(Len(Visits))
    /\ solutions = << >>
    /\ started = << >>
    /\ cursor = 0
    /\ round = "idle"
    /\ asked = NothingAsked

NextSolve ==
    \/ StartRound
    \/ \E o \in RoundOutcomes : SalvageSaved(o)
    \/ \E reply \in RoundReplies, o1 \in RoundOutcomes, o2 \in RoundOutcomes :
          VisitTriple(reply, o1, o2)
    \/ FinishRound

\* one solving round resumed from a saved batch
SpecSolve == InitSolve /\ [][NextSolve]_vars

(***************************************************************************)
(* Properties of compare_answers.                                          *)
(***************************************************************************)
\* last is a compare_answers call that got past load_answers_db
Called(c) == c.caller \in { "direct", "driver" } /\ c.step # "load"

PairOf(c) == << c.good, c.provided >>

Memoized(c) ==
    InList(PairOf(c), c.db.matching) \/ InList(PairOf(c), c.db.non_matching)

\* the provided answer is a failure sentinel or blank
Sentinel(c) ==
    \/ c.provided \in { FailedToGetAnswer, Timeout }
    \/ \A i \in 1..Len(c.provided) : c.provided[i] \in Whitespace

BothNumbers(c) == ParseFloat(c.good).ok /\ ParseFloat(c.provided).ok

\* none of the store, equality, the sentinels and the numbers decides
Undecided(c) ==
    /\ Called(c)
    /\ ~ Memoized(c)
    /\ c.good # c.provided
    /\ ~ Sentinel(c)
    /\ ~ BothNumbers(c)

\* C1: a pair the loaded store holds as matching is answered true and a
\* pair it holds as non-matching is answered false, whatever the later
\* steps would say, with no prompt and no exception.
C1_MemoizedLookupWins ==
    Called(last) =>
        /\ InList(PairOf(last), last.db.matching) =>
               last.result = "true" /\ ~ last.asked
        /\ InList(PairOf(last), last.db.non_matching) =>
               last.result = "false" /\ ~ last.asked

\* an answer compared with itself is answered false from the store, and a
\* "Timeout" is answered true from the store
C1_Witness ==
    /\ last.caller = "direct"
    /\ \/ /\ InList(PairOf(last), last.db.non_matching)
          /\ last.good = last.provided
          /\ last.result = "false"
       \/ /\ InList(PairOf(last), last.db.matching)
          /\ last.provided = Timeout
          /\ last.result = "true"

\* C7: compare_answers(x, x, False) is true for a non-empty x, with no
\* prompt and no exception, in every store grading reaches from no store.
C7_Reflexive ==
    /\ last.caller = "direct"
    /\ last.good = last.provided
    /\ Len(last.good) > 0
    /\ ~ last.ask_user
    => last.result = "true" /\ ~ last.asked

\* "Timeout" compared with itself after a session has filled the store
C7_Witness ==
    /\ last.caller = "direct"
    /\ last.good = Timeout /\ last.provided = Timeout
    /\ ~ last.ask_user
    /\ Len(last.db.matching) > 0 /\ Len(last.db.non_matching) > 0
    /\ last.result = "true"

WithoutOracleOn(c, provided) ==
    c.caller = "direct" /\ c.step # "load" /\ ~ c.ask_user
    /\ c.provided = provided

C9_NumericTolerance ==
    /\ Called(last)
    /\ ~ Memoized(last)
    /\ last.good # last.provided
    /\ ~ Sentinel(last)
    => IF BothNumbers(last)
       THEN /\ ~ last.asked
            /\ last.result \in { "true", "false" }
            /\ last.result = "true" <=>
                   100 * Abs(ParseFloat(last.good).val
                             - ParseFloat(last.provided).val) < Unit
       ELSE last.step = "oracle"

\* 0 against 0.01, exactly 0.01 apart, is answered false without the oracle
C9_Witness ==
    /\ last.caller = "direct"
    /\ ~ last.ask_user
    /\ last.good = S0 /\ last.provided = S001
    /\ last.result = "false"
    /\ last.step = "numeric"

StoreContents(f) == [ matching |-> f.matching, non_matching |-> f.non_matching ]

\* C10: a call with ask_user false that no automatic step decides raises,
\* without a prompt, and leaves the contents of the store as they were.
C10_RaisesWithoutOracle ==
    [][ ( /\ last' # last
          /\ Undecided(last')
          /\ ~ last'.ask_user )
        => /\ last'.result = "raise"
           /\ ~ last'.asked
           /\ StoreContents(file') = StoreContents(file) ]_vars

\* such a call has raised over a store that holds verdicts
C10_Witness ==
    /\ Undecided(last)
    /\ ~ last.ask_user
    /\ last.result = "raise"
    /\ Len(file.matching) > 0

(***************************************************************************)
(* Properties of the store and of compute_matchings_for_answers.           *)
(***************************************************************************)
\* the human was asked about last's pair and answered y
OracleSaidMatching(c) ==
    Called(c) /\ c.step = "oracle" /\ c.asked /\ c.result = "true"

\* the store holds pair as matching, and compare_answers, loading the store
\* anew, answers true on it without a prompt
Persisted(pair) ==
    /\ Loadable(file)
    /\ InList(pair, file.matching)
    /\ \A ask_user \in BOOLEAN, reply \in Replies :
           LET out == compare_answers(load_answers_db(file), pair[1], pair[2],
                                      ask_user, reply)
           IN  out.result = "true" /\ ~ out.asked

LostVerdicts(s) ==
    { p \in Range(matching[s]) : ~ InList(p, file.matching) }
    \cup { p \in Range(non_matching[s]) : ~ InList(p, file.non_matching) }

\* C3 as claimed: wherever a session is interrupted, the rewrite of the
\* file included, the store file holds every verdict but at most one.
C3_InterruptionLosesAtMostOne ==
    \A s \in Sequential :
        pc[s] = "interrupted" => Cardinality(LostVerdicts(s)) <= 1

ListsDisjoint(m, n) == Range(m) \cap Range(n) = {}

\* C4: no pair is in both lists, in the file or in a session's memory.
C4_NeverInBothLists ==
    /\ ListsDisjoint(file.matching, file.non_matching)
    /\ \A s \in Sessions : ListsDisjoint(matching[s], non_matching[s])

\* a session has ended with pairs on both sides, one of them from the human
C4_Witness ==
    /\ \E s \in Sequential : pc[s] = "done"
    /\ Len(file.matching) > 0 /\ Len(file.non_matching) > 0
    /\ last.caller = "driver" /\ last.step = "oracle"

\* C5: a step never takes a pair out of a list of the store file.
C5_AppendOnly ==
    [][ file.state = "ok" =>
            /\ file'.state = "ok"
            /\ Range(file.matching) \subseteq Range(file'.matching)
            /\ Range(file.non_matching) \subseteq Range(file'.non_matching)
      ]_vars

\* a session has ended whose file holds a pair it was not given, next to
\* one it graded
C5_Witness ==
    \E s \in Sequential :
        /\ pc[s] = "done"
        /\ \E p \in Range(file.matching) \cup Range(file.non_matching) :
               p \notin Range(collection[s])
        /\ \E p \in Range(file.matching) \cup Range(file.non_matching) :
               p \in Range(collection[s]) /\ last.good = p[1]
                                          /\ last.provided = p[2]

\* each pair of the collection is in exactly one list of the store file
AllGraded(s) ==
    \A p \in Range(collection[s]) :
        InList(p, file.matching) # InList(p, file.non_matching)

\* C6: with a human who answers y or n, a session ends, and then every
\* pair of its collection is in exactly one list of the store file.
C6_DriverTerminates ==
    /\ \A s \in Sequential : Running(s) ~> pc[s] = "done"
    /\ [](\A s \in Sequential : pc[s] = "done" => AllGraded(s))

\* a session has ended on a collection that holds a pair twice, graded by
\* the human
C6_Witness ==
    \E s \in Sequential :
        /\ pc[s] = "done"
        /\ Len(collection[s]) > 1
        /\ ~ NoDuplicates(collection[s])
        /\ last.caller = "driver" /\ last.step = "oracle"
        /\ AllGraded(s)

(***************************************************************************)
(* Properties of the reply parser.                                         *)
(***************************************************************************)
\* the latest call was from_reply / try_extract_python_code
Parsed == op = "from_reply"

Salvaging == op = "try_extract_python_code"

\* both markers of the block are in the reply
HasCodeBlock(c) == Contains(c, PythonCodeStart) /\ Contains(c, PythonCodeEnd)

HasAnswerBlock(c) == Contains(c, AnswerStart) /\ Contains(c, AnswerEnd)

MissingBothBlocks(c) == ~ HasCodeBlock(c) /\ ~ HasAnswerBlock(c)

\* what the executor's outcome makes of a script: "Timeout", or the trimmed
\* standard output
ExecutorResult(o) == IF o.timed_out THEN Timeout ELSE Strip(o.stdout)

\* some execution of the latest call had the signature in its standard error
SignatureSeen == \E i \in DOMAIN runs : runs[i].outcome.misconfigured

\* C11: from_reply, its salvage pass included, never raises to its caller,
\* whatever the reply and whatever the executor does.
C11_ParseNeverRaises == Parsed => ~ raised

\* C12: a sandbox misconfiguration is propagated: whenever an execution
\* started by the executor has the error signature in its standard error,
\* the call of the parser that started it raises.
C12_MisconfigurationPropagated ==
    (Parsed \/ Salvaging) /\ SignatureSeen => raised

ValidAnswerOnly(c) ==
    /\ ~ Contains(c, PythonCodeStart) /\ ~ Contains(c, PythonCodeEnd)
    /\ Len(Split(c, ReasoningStart)) = 2 /\ Len(Split(c, ReasoningEnd)) = 2
    /\ Len(Split(c, AnswerStart)) = 2 /\ Len(Split(c, AnswerEnd)) = 2
    /\ Find(c, ReasoningStart) < Find(c, ReasoningEnd)
    /\ Find(c, ReasoningEnd) < Find(c, AnswerStart)
    /\ Find(c, AnswerStart) < Find(c, AnswerEnd)

\* the trimmed text between the answer markers of such a reply
TextOfAnswerBlock(c) ==
    Strip(SubSeq(c, Find(c, AnswerStart) + 1, Find(c, AnswerEnd) - 1))

\* C14: for a valid reply with only an ANSWER block, the answer of the record
\* is the trimmed text between the answer markers, python_code is None and
\* run_script is not called.
C14_AnswerOnlyReply ==
    Parsed /\ ValidAnswerOnly(content) =>
        /\ ~ raised
        /\ llm_answer.answer = TextOfAnswerBlock(content)
        /\ ~ llm_answer.python_code.present
        /\ runs = << >>

\* C15: an execution that does not finish within the timeout makes
\* run_script kill the container and return "Timeout": it does not raise,
\* it does not return the captured output, and the answer of the record is
\* then "Timeout".
C15_TimeoutGivesTimeout ==
    /\ \A i \in DOMAIN runs :
          runs[i].outcome.timed_out =>
              /\ ~ runs[i].raised
              /\ runs[i].killed
              /\ runs[i].value = Timeout
    /\ runs # << >> /\ runs[Len(runs)].outcome.timed_out =>
          ~ raised /\ llm_answer.answer = Timeout

\* an execution timed out with output captured and the signature in its
\* standard error
C15_Witness ==
    /\ runs # << >>
    /\ runs[Len(runs)].outcome.timed_out
    /\ runs[Len(runs)].outcome.misconfigured
    /\ runs[Len(runs)].outcome.stdout # EmptyStr
    /\ llm_answer.answer = Timeout

\* C16: a second try_extract_python_code right after a first one on the same
\* record leaves answer and python_code as the first one left them.
C16_SalvageIdempotent ==
    [][ Salvaging /\ op' = "try_extract_python_code" =>
            /\ llm_answer'.answer = llm_answer.answer
            /\ llm_answer'.python_code = llm_answer.python_code ]_vars

\* a malformed record was salvaged, its script timed out, and
\* try_extract_python_code was called again
C16_Witness ==
    /\ Salvaging
    /\ salvages = MaxSalvages
    /\ llm_answer.python_code.present
    /\ llm_answer.answer = Timeout
    /\ TaggedBlock(content).present
    /\ ~ HasCodeBlock(content)
    /\ runs = << >>

\* the pieces of s between fences
FencedPieces(s) == Split(s, Fence)

\* the block the salvage pass is to take: the last tagged one, a bare one
\* when there is no tagged fence
BlockToTake(s) ==
    IF TaggedBlock(s).present THEN TaggedBlock(s)
    ELSE IF ~ Contains(s, FencePython) /\ Len(FencedPieces(s)) >= 3
    THEN Code(FencedPieces(s)[Len(FencedPieces(s)) - 1])
    ELSE NoCode

\* C17: on a record whose answer is the failure sentinel and whose
\* python_code is None, try_extract_python_code takes the last tagged fenced
\* block of the reply, a bare fenced block when there is no tagged one, and
\* sets python_code and answer from running it.
C17_SalvageTakesLastFencedBlock ==
    Salvaging /\ Malformed(earlier) /\ BlockToTake(content).present =>
        /\ llm_answer.python_code = Code(Strip(BlockToTake(content).text))
        /\ Len(runs) = 1
        /\ ~ raised => llm_answer.answer = ExecutorResult(runs[1].outcome)

\* what the salvage pass at the end of from_reply leaves of a failed
\* extraction: the failure record, the result of the tagged block, or the
\* exception of run_script
FailedOrSalvaged(salvage_runs) ==
    IF ~ TaggedBlock(content).present
    THEN /\ ~ raised
         /\ salvage_runs = << >>
         /\ llm_answer.answer = FailedToGetAnswer
         /\ ~ llm_answer.python_code.present
    ELSE /\ Len(salvage_runs) = 1
         /\ raised = salvage_runs[1].raised
         /\ ~ raised =>
               /\ llm_answer.answer = ExecutorResult(salvage_runs[1].outcome)
               /\ llm_answer.python_code =
                      Code(Strip(TaggedBlock(content).text))

\* C18: when the reply has a PYTHON CODE start marker, the answer of the
\* record is the executor's outcome for the extracted code: "Timeout" on
\* timeout, the trimmed standard output otherwise.
C18_CodeMarkerDecides ==
    Parsed /\ Contains(content, PythonCodeStart) =>
        /\ ~ raised
        /\ Len(runs) = 1
        /\ llm_answer.python_code.present
        /\ llm_answer.answer = ExecutorResult(runs[1].outcome)

\* C18 (amended): when the reply has both PYTHON CODE markers, run_script is
\* called on the extracted code, and when it returns the answer of the
\* record is "Timeout" on timeout and the trimmed standard output
\* otherwise, also with an ANSWER block in the reply.  When the end marker is
\* missing or run_script raises, the extraction has failed and the record is
\* what the salvage pass makes of it.  The text of the ANSWER block is used
\* in neither case.
C18_CodePathTakesPrecedence ==
    Parsed /\ Contains(content, PythonCodeStart) =>
        IF ~ Contains(content, PythonCodeEnd) THEN FailedOrSalvaged(runs)
        ELSE /\ runs # << >>
             /\ runs[1].script = ScriptFile(ExtractCode(content))
             /\ IF runs[1].raised THEN FailedOrSalvaged(Tail(runs))
                ELSE /\ ~ raised
                     /\ Len(runs) = 1
                     /\ llm_answer.python_code = Code(ExtractCode(content))
                     /\ llm_answer.answer = ExecutorResult(runs[1].outcome)

\* a reply with a code block and an answer block was parsed and the script
\* printed its output
C18_Witness ==
    /\ Parsed
    /\ HasCodeBlock(content) /\ HasAnswerBlock(content)
    /\ Len(runs) = 1
    /\ ~ runs[1].outcome.timed_out
    /\ llm_answer.python_code.present
    /\ llm_answer.answer = Strip(runs[1].outcome.stdout)
    /\ llm_answer.answer # TextOfAnswerBlock(content)

\* the replies that take the branch of the answer block
TakesAnswerBranch(c) == ~ Contains(c, PythonCodeStart) /\ HasAnswerBlock(c)

\* (a) python_code is None and the answer is the text of the answer block
FromAnswerBlock(rec) ==
    /\ ~ rec.python_code.present
    /\ TakesAnswerBranch(rec.whole_answer)
    /\ rec.answer = ExtractAnswerText(rec.whole_answer)

\* (b) python_code is set and the answer is a result of the executor
FromExecution(rec) ==
    /\ rec.python_code.present
    /\ rec.answer \in { ExecutorResult(o) : o \in Outcomes }

\* (c) parsing failed, python_code is None and the answer is the sentinel
ParsingFailed(rec) ==
    /\ ~ rec.python_code.present
    /\ ~ TakesAnswerBranch(rec.whole_answer)
    /\ rec.answer = FailedToGetAnswer

\* how many of the formulas of the sequence hold
Holding(fs) == Cardinality({ i \in DOMAIN fs : fs[i] })

\* C19: every record the caller holds is exactly one of (a), (b), (c), and
\* never has python_code set together with the failure sentinel.
C19_RecordInvariant ==
    Held =>
        /\ Holding(<< FromAnswerBlock(llm_answer), FromExecution(llm_answer),
                      ParsingFailed(llm_answer) >>) = 1
        /\ ~ (/\ llm_answer.python_code.present
              /\ llm_answer.answer = FailedToGetAnswer)

(***************************************************************************)
(* Sessions in parallel.                                                   *)
(***************************************************************************)
\* the step is an iteration of session s
Iterates(s) == Running(s) /\ answers'[s] # answers[s]

\* C20: last writer wins.  Each iteration of a session adds its pair to the
\* lists the session holds in memory, whatever the file holds by then, and
\* leaves exactly these lists in the file.
C20_LastWriterWins ==
    [][ \A s \in Sessions :
            Iterates(s) =>
                /\ file' = StoreFile("ok", matching'[s], non_matching'[s])
                /\ << matching'[s], non_matching'[s] >> \in
                       { << Append(matching[s], answers[s][1]),
                            non_matching[s] >>,
                         << matching[s],
                            Append(non_matching[s], answers[s][1]) >> } ]_vars

\* a verdict that session s has saved is no longer in the file, which the
\* other session has written since
C20_Witness ==
    \E s \in Sessions, t \in Sessions :
        /\ s # t
        /\ pc[s] \in { "loop", "prompt", "done" }
        /\ LostVerdicts(s) # { }
        /\ file = StoreFile("ok", matching[t], non_matching[t])
        /\ Len(matching[t]) + Len(non_matching[t]) > 0

(***************************************************************************)
(* Properties of a solving round.                                          *)
(***************************************************************************)
\* the records of the batch for the triple
RecordsFor(b, triple) == { i \in 1..Len(b) : TripleOf(b[i]) = triple }

OnePerTriple(b) ==
    \A i \in DOMAIN Visits : Cardinality(RecordsFor(b, Visits[i])) <= 1

\* the raw replies the batch holds for the triple
RawReplies(b, triple) ==
    { b[i].rec.whole_answer : i \in RecordsFor(b, triple) }

\* the saved batch had a record for the triple without the failure marker
SolvedAtStart(i) == AlreadySolved(started, Visits[i])

\* from_reply has returned the record for the reply of triple i
Answered(i) == asked[i] # << >> /\ ~ (round = "failed" /\ cursor = i)

\* C21: in a round resumed from a batch with at most one record per triple,
\* a triple whose saved record has no failure marker is not asked again and
\* keeps its record; any other triple is asked once, and the record parsed
\* from the reply takes the place of the old one; every batch in the file
\* has at most one record per triple.
C21_ResumeAsksOnlyMissing ==
    /\ OnePerTriple(batch)
    /\ round # "idle" =>
          \A i \in DOMAIN Visits :
              /\ Len(asked[i]) <= 1
              /\ SolvedAtStart(i) =>
                    /\ asked[i] = << >>
                    /\ RawReplies(batch, Visits[i])
                           = RawReplies(started, Visits[i])
              /\ Answered(i) => RawReplies(batch, Visits[i]) = { asked[i][1] }
              /\ round = "done" /\ ~ SolvedAtStart(i) => Len(asked[i]) = 1

\* a round has ended in which a triple with a saved answer was skipped and
\* a triple with a saved backend failure was asked and answered
C21_Witness ==
    /\ round = "done"
    /\ \E i \in DOMAIN Visits, j \in DOMAIN Visits :
          /\ SolvedAtStart(i)
          /\ asked[i] = << >>
          /\ RawReplies(started, Visits[j]) = { BackendFailure }
          /\ asked[j] = << AnswerOnly >>
          /\ RawReplies(batch, Visits[j]) = { AnswerOnly }
          /\ Len(batch) = Len(Visits)

====
